---- MODULE Spec2Model ----
(***************************************************************************)
(* Model of valuation_bancos.py: the excess-return valuation pipeline      *)
(* (ROE vs Ke) for a roster of banks.  Tables (pandas DataFrames) are      *)
(* sequences of records, one record per row, in row order.  Floating-point *)
(* columns are modelled by exact rationals extended with NaN and the two   *)
(* infinities, with the IEEE rules for division by zero and for NaN.       *)
(***************************************************************************)
EXTENDS Integers, Sequences, FiniteSets, TLC

VARIABLES
    pc,             \* position of the script / of the function under study
    ano,            \* baixar_dados_cvm: index of the year being downloaded
    lista_dre,      \* baixar_dados_cvm: non-empty DRE batches so far
    lista_bpp,      \* baixar_dados_cvm: non-empty BPP batches so far
    anos_ok,        \* baixar_dados_cvm: years whose archive was obtained
    dre_total,      \* concatenated DRE frame
    bpp_total,      \* concatenated BPP frame
    serie,          \* the BCB daily series (the policy-rate source's content)
    inicio,         \* baixar_selic: first year of the next sub-range request
    ano_ini,        \* baixar_selic: argument
    ano_fim,        \* baixar_selic: argument
    pedidos,        \* baixar_selic: the sub-range requests issued so far
    todos,          \* baixar_selic: accumulated rate points
    df_selic,       \* annual risk-free table
    df_ibov,        \* annual market-return table
    banco,          \* main loop: index into BANCOS
    df_lucro,       \* net income by year of the current entity
    df_pl,          \* controlling equity by year of the current entity
    df_roe,         \* ROE table of the current entity
    beta,           \* beta of the current entity
    df_capm,        \* valuation table of the current entity
    pares,          \* per call of calcular_beta: entity and paired returns
    resultados,     \* mapping entity name -> valuation table, in insertion order
    planilha        \* whether criar_excel was called, and with which mapping

vars == <<pc, ano, lista_dre, lista_bpp, anos_ok, dre_total, bpp_total, serie,
          inicio, ano_ini, ano_fim, pedidos, todos, df_selic, df_ibov, banco,
          df_lucro, df_pl, df_roe, beta, df_capm, pares, resultados, planilha>>

(***************************************************************************)
(* Bounds of the model.                                                    *)
(***************************************************************************)
NumYears == 3       \* fiscal years offered to calcular_roe / calcular_capm
NumAnos == 3        \* years of the analysis window of a run
NumBancos == 2      \* entities of the roster taken into a run
MaxSpan == 21       \* largest ano_fim - ano_ini handed to baixar_selic

(***************************************************************************)
(* Floating-point numbers: rationals n/d in lowest terms with d > 0, NaN,  *)
(* +inf and -inf.                                                          *)
(***************************************************************************)
Abs(x) == IF x < 0 THEN -x ELSE x

Sign(x) == IF x < 0 THEN -1 ELSE IF x > 0 THEN 1 ELSE 0

RECURSIVE GCD(_, _)
GCD(a, b) == IF b = 0 THEN a ELSE GCD(b, a % b)

NaN == [k |-> "nan", n |-> 0, d |-> 0]

PInf == [k |-> "inf", n |-> 1, d |-> 0]

NInf == [k |-> "inf", n |-> -1, d |-> 0]

Inf(s) == IF s < 0 THEN NInf ELSE PInf

Fin(n, d) ==
    LET g == GCD(Abs(n), Abs(d))
        s == IF d < 0 THEN -1 ELSE 1
    IN  [k |-> "fin", n |-> (s * n) \div g, d |-> (s * d) \div g]

Int2Num(i) == Fin(i, 1)

IsNaN(x) == x.k = "nan"

NumNeg(a) ==
    IF a.k = "nan" THEN NaN
    ELSE IF a.k = "inf" THEN Inf(-a.n)
    ELSE Fin(-a.n, a.d)

NumAdd(a, b) ==
    IF a.k = "nan" \/ b.k = "nan" THEN NaN
    ELSE IF a.k = "inf" /\ b.k = "inf" THEN (IF a.n = b.n THEN a ELSE NaN)
    ELSE IF a.k = "inf" THEN a
    ELSE IF b.k = "inf" THEN b
    ELSE Fin(a.n * b.d + b.n * a.d, a.d * b.d)

NumSub(a, b) == NumAdd(a, NumNeg(b))

NumMul(a, b) ==
    IF a.k = "nan" \/ b.k = "nan" THEN NaN
    ELSE IF a.k = "inf" \/ b.k = "inf"
         THEN (IF Sign(a.n) * Sign(b.n) = 0 THEN NaN
               ELSE Inf(Sign(a.n) * Sign(b.n)))
    ELSE Fin(a.n * b.n, a.d * b.d)

\* float division: x/0 is +-inf, 0/0 is NaN, no exception (numpy semantics)
NumDiv(a, b) ==
    IF a.k = "nan" \/ b.k = "nan" THEN NaN
    ELSE IF a.k = "inf" /\ b.k = "inf" THEN NaN
    ELSE IF a.k = "inf" THEN Inf(IF b.n < 0 THEN -a.n ELSE a.n)
    ELSE IF b.k = "inf" THEN Fin(0, 1)
    ELSE IF b.n = 0 THEN (IF a.n = 0 THEN NaN ELSE Inf(Sign(a.n)))
    ELSE Fin(a.n * b.d, a.d * b.n)

\* a > b as the floating-point comparison: false when either side is NaN
NumGT(a, b) ==
    IF a.k = "nan" \/ b.k = "nan" THEN FALSE
    ELSE IF a.k = "inf" THEN a.n > 0 /\ ~(b.k = "inf" /\ b.n > 0)
    ELSE IF b.k = "inf" THEN b.n < 0
    ELSE a.n * b.d > b.n * a.d

Zero == Fin(0, 1)

(***************************************************************************)
(* Table helpers.                                                          *)
(***************************************************************************)
Range(s) == {s[i] : i \in DOMAIN s}

RECURSIVE Flatten(_)
Flatten(ss) == IF ss = <<>> THEN <<>> ELSE Head(ss) \o Flatten(Tail(ss))

Min(S) == CHOOSE x \in S : \A y \in S : x <= y

\* the elements of a finite set of integers in ascending order
RECURSIVE Ascending(_)
Ascending(S) == IF S = {} THEN <<>> ELSE <<Min(S)>> \o Ascending(S \ {Min(S)})

\* pd.merge(left, right, left_on=lk, right_on=rk), how="inner": the order of
\* the left keys is preserved; the columns of both sides are kept
RowsMatching(right, rk, v) == SelectSeq(right, LAMBDA r : r[rk] = v)

MergeInner(left, right, lk, rk) ==
    Flatten([i \in 1..Len(left) |->
        LET m == RowsMatching(right, rk, left[i][lk])
        IN  [j \in 1..Len(m) |-> left[i] @@ m[j]]])

(***************************************************************************)
(* Disclosure records.  A row of a DRE/BPP frame is a record               *)
(*   [CNPJ_CIA, DT_REFER, ORDEM_EXERC, CD_CONTA, DS_CONTA, VL_CONTA]       *)
(* with DT_REFER a date <<year, month, day>> and VL_CONTA in thousands.    *)
(* A frame is [columns |-> BOOLEAN, rows |-> rows]: pd.DataFrame() has no  *)
(* columns at all, a frame read from a CSV has them even with no row.      *)
(***************************************************************************)
SemColunas == [columns |-> FALSE, rows |-> <<>>]

Frame(rows) == [columns |-> TRUE, rows |-> rows]

FrameEmpty(f) == f.rows = <<>>

YearOf(dt) == dt[1]

\* account descriptions of the model's vocabulary that contain
\* "Lucro/Prejuizo", upper or lower case (str.contains(..., case=False))
DescricoesLucro == {"Lucro/Prejuizo Consolidado do Periodo",
                    "LUCRO/PREJUIZO DO PERIODO"}

ContemLucroPrejuizo(ds) == ds \in DescricoesLucro

RECURSIVE SumVL(_)
SumVL(rows) == IF rows = <<>> THEN 0 ELSE Head(rows).VL_CONTA * 1000 + SumVL(Tail(rows))

RowsOfYear(rows, y) == SelectSeq(rows, LAMBDA r : YearOf(r.DT_REFER) = y)

\* extrair_lucro: one (Ano, Lucro_Liquido) row per year, ascending
extrair_lucro(dre, cnpj) ==
    LET df == SelectSeq(dre, LAMBDA r : /\ r.CNPJ_CIA = cnpj
                                        /\ ContemLucroPrejuizo(r.DS_CONTA)
                                        /\ r.ORDEM_EXERC = "ULTIMO")
        anos == Ascending({YearOf(r.DT_REFER) : r \in Range(df)})
    IN  [i \in 1..Len(anos) |->
            [Ano |-> anos[i],
             Lucro_Liquido |-> Int2Num(SumVL(RowsOfYear(df, anos[i])))]]

\* a cell of pivot_table(index="Ano", columns="CD_CONTA", aggfunc="sum"):
\* the sum of the year's rows of that account, NaN when the year has none
PivotCell(df, y, conta) ==
    LET sel == SelectSeq(RowsOfYear(df, y), LAMBDA r : r.CD_CONTA = conta)
    IN  IF sel = <<>> THEN NaN ELSE Int2Num(SumVL(sel))

\* pivot.get(conta, pd.Series(0, index=pivot.index)): the pivot's column when
\* any row of the frame has that account, a column of zeros otherwise
PivotGet(df, y, conta) ==
    IF \E r \in Range(df) : r.CD_CONTA = conta
    THEN PivotCell(df, y, conta) ELSE Zero

\* extrair_pl: one (Ano, PL_Controlador) row per year, ascending
extrair_pl(bpp, cnpj) ==
    LET df == SelectSeq(bpp, LAMBDA r : /\ r.CNPJ_CIA = cnpj
                                        /\ r.CD_CONTA \in {"2.08", "2.08.09"}
                                        /\ r.ORDEM_EXERC = "ULTIMO")
        anos == Ascending({YearOf(r.DT_REFER) : r \in Range(df)})
    IN  [i \in 1..Len(anos) |->
            [Ano |-> anos[i],
             PL_Controlador |-> NumSub(PivotGet(df, anos[i], "2.08"),
                                       PivotGet(df, anos[i], "2.08.09"))]]

(***************************************************************************)
(* ROE and CAPM.                                                           *)
(***************************************************************************)
\* Series.shift(1): row i takes the value of row i-1, the first row NaN
Shift1(col) == [i \in 1..Len(col) |-> IF i = 1 THEN NaN ELSE col[i - 1]]

\* DataFrame.dropna(): a row is dropped when any of its float cells is NaN
RowHasNaN(r, cols) == \E c \in cols : IsNaN(r[c])

ColunasRoe == {"Lucro_Liquido", "PL_Controlador", "PL_Inicial", "ROE"}

calcular_roe(lucro, pl) ==
    LET df == MergeInner(lucro, pl, "Ano", "Ano")
        ini == Shift1([i \in 1..Len(df) |-> df[i].PL_Controlador])
        full == [i \in 1..Len(df) |->
                    [Ano |-> df[i].Ano,
                     Lucro_Liquido |-> df[i].Lucro_Liquido,
                     PL_Controlador |-> df[i].PL_Controlador,
                     PL_Inicial |-> ini[i],
                     ROE |-> NumDiv(df[i].Lucro_Liquido, ini[i])]]
    IN  SelectSeq(full, LAMBDA r : ~RowHasNaN(r, ColunasRoe))

\* pd.merge(..., how="left"): a left row without a match is kept, with NaN in
\* the right side's columns
MergeLeft(left, right, lk, rk, fill) ==
    Flatten([i \in 1..Len(left) |->
        LET m == RowsMatching(right, rk, left[i][lk])
        IN  IF m = <<>> THEN <<left[i] @@ fill>>
            ELSE [j \in 1..Len(m) |-> left[i] @@ m[j]]])

\* mutant of CapmMerge: the market table joined with how="left"
CapmMergeLeftIbov(roe, selic, ibov) ==
    MergeLeft(MergeInner(roe, selic, "Ano", "ano"), ibov, "Ano", "ano",
              [retorno_ibov |-> NaN])

\* the two merges of calcular_capm, on Ano = ano, both inner
CapmMerge(roe, selic, ibov) ==
    MergeInner(MergeInner(roe, selic, "Ano", "ano"), ibov, "Ano", "ano")

\* mutant of CapmKe: beta applied to the market return, not to the premium
CapmKeSemPremio(Rf, Rm, b) == NumAdd(Rf, NumMul(b, Rm))

CapmKe(Rf, Rm, b) == NumAdd(Rf, NumMul(b, NumSub(Rm, Rf)))

CapmSpread(ROE, Ke) == NumSub(ROE, Ke)

calcular_capm(roe, selic, ibov, b) ==
    LET df == CapmMerge(roe, selic, ibov)
    IN  [i \in 1..Len(df) |->
            LET Rf == df[i].selic_anual
                Rm == df[i].retorno_ibov
                Ke == CapmKe(Rf, Rm, b)
            IN  [Ano |-> df[i].Ano,
                 Lucro_Liquido |-> df[i].Lucro_Liquido,
                 PL_Controlador |-> df[i].PL_Controlador,
                 PL_Inicial |-> df[i].PL_Inicial,
                 ROE |-> df[i].ROE,
                 beta |-> b,
                 Rf |-> Rf,
                 Rm |-> Rm,
                 Ke |-> Ke,
                 spread_valor |-> CapmSpread(df[i].ROE, Ke)]]

(***************************************************************************)
(* Idle values of the variables a specification does not use.              *)
(***************************************************************************)
SemPlanilha == [escrita |-> FALSE, resultados |-> <<>>]

CvmIdle ==
    /\ ano = 0
    /\ lista_dre = <<>>
    /\ lista_bpp = <<>>
    /\ anos_ok = <<>>
    /\ dre_total = SemColunas
    /\ bpp_total = SemColunas

SelicIdle ==
    /\ serie = <<>>
    /\ inicio = 0
    /\ ano_ini = 0
    /\ ano_fim = 0
    /\ pedidos = <<>>
    /\ todos = <<>>

BancoIdle ==
    /\ banco = 0
    /\ pares = <<>>
    /\ resultados = <<>>
    /\ planilha = SemPlanilha

cvmVars == <<ano, lista_dre, lista_bpp, anos_ok, dre_total, bpp_total>>

selicVars == <<serie, inicio, ano_ini, ano_fim, pedidos, todos>>

bancoVars == <<banco, pares, resultados, planilha>>

(***************************************************************************)
(* SpecVal: calcular_roe followed by calcular_capm on inputs drawn from    *)
(* bounded sets.  Each fiscal year y has its own net income LucroDe(y),    *)
(* equity PLDe(y), rate RfDe(y) % and market return RmDe(y) %, so a value  *)
(* in an output row tells which year it was taken from.                    *)
(***************************************************************************)
YearsVal == 2020..(2019 + NumYears)

LucroDe(y) == 100 + 20 * (y - 2021)

PLDe(y) == 1000 + 100 * (y - 2020)

RfDe(y) == 5 + 2 * (2022 - y)

RmDe(y) == 15 - 10 * (2022 - y)

\* which years a table has: all of them, all but one, or none
Patterns == {YearsVal, {}} \cup {YearsVal \ {y} : y \in YearsVal}

LucroTable(P, sgn) ==
    LET ys == Ascending(P)
    IN  [i \in 1..Len(ys) |->
            [Ano |-> ys[i], Lucro_Liquido |-> Int2Num(sgn * LucroDe(ys[i]))]]

PLValue(opt, y) ==
    IF opt = "nan" THEN NaN ELSE IF opt = "zero" THEN Zero ELSE Int2Num(PLDe(y))

PLTable(opts) ==
    LET ys == Ascending({y \in YearsVal : opts[y] # "absent"})
    IN  [i \in 1..Len(ys) |->
            [Ano |-> ys[i], PL_Controlador |-> PLValue(opts[ys[i]], ys[i])]]

SelicTable(P) ==
    LET ys == Ascending(P)
    IN  [i \in 1..Len(ys) |-> [ano |-> ys[i], selic_anual |-> Fin(RfDe(ys[i]), 100)]]

IbovTable(P) ==
    LET ys == Ascending(P)
    IN  [i \in 1..Len(ys) |-> [ano |-> ys[i], retorno_ibov |-> Fin(RmDe(ys[i]), 100)]]

Betas == {Fin(12, 10), Fin(-1, 2)}

InitVal ==
    /\ pc = "roe"
    /\ CvmIdle /\ SelicIdle /\ BancoIdle
    /\ \E P \in Patterns, sgn \in {1, -1} : df_lucro = LucroTable(P, sgn)
    /\ \E opts \in [YearsVal -> {"absent", "nan", "zero", "val"}] : df_pl = PLTable(opts)
    /\ \E P \in Patterns : df_selic = SelicTable(P)
    /\ \E P \in Patterns : df_ibov = IbovTable(P)
    /\ beta \in Betas
    /\ df_roe = <<>>
    /\ df_capm = <<>>

RoeStep ==
    /\ pc = "roe"
    /\ df_roe' = calcular_roe(df_lucro, df_pl)
    /\ pc' = "capm"
    /\ UNCHANGED <<cvmVars, selicVars, bancoVars, df_selic, df_ibov, df_lucro,
                   df_pl, beta, df_capm>>

CapmStep ==
    /\ pc = "capm"
    /\ df_capm' = calcular_capm(df_roe, df_selic, df_ibov, beta)
    /\ pc' = "done"
    /\ UNCHANGED <<cvmVars, selicVars, bancoVars, df_selic, df_ibov, df_lucro,
                   df_pl, beta, df_roe>>

NextVal == RoeStep \/ CapmStep

SpecVal == InitVal /\ [][NextVal]_vars

(***************************************************************************)
(* Claims settled under SpecVal.                                           *)
(***************************************************************************)
AnosDe(t, key) == {t[i][key] : i \in DOMAIN t}

ColAnos(t, key) == [i \in 1..Len(t) |-> t[i][key]]

\* C1: every row calcular_roe outputs for a fiscal year Y has PL_Inicial equal
\* to the controlling equity of year Y-1 and ROE = Lucro_Liquido(Y) /
\* PL_Controlador(Y-1), also when the years of the inputs have gaps; no row
\* uses the equity of another year.
C1_RoeUsesEquityOfPriorYear ==
    pc # "roe" =>
        \A r \in Range(df_roe) :
            \E l \in Range(df_lucro), p \in Range(df_pl) :
                /\ l.Ano = r.Ano
                /\ p.Ano = r.Ano - 1
                /\ r.PL_Inicial = p.PL_Controlador
                /\ r.ROE = NumDiv(l.Lucro_Liquido, p.PL_Controlador)

\* C3: every row of calcular_capm's table has Ke = Rf + beta * (Rm - Rf) and
\* spread_valor = ROE - Ke, its beta is the one value passed for the entity,
\* and spread_valor > 0 exactly when ROE > Ke.
C3_CapmRowIdentities ==
    pc = "done" =>
        \A r \in Range(df_capm) :
            /\ r.beta = beta
            /\ r.Ke = NumAdd(r.Rf, NumMul(r.beta, NumSub(r.Rm, r.Rf)))
            /\ r.spread_valor = NumSub(r.ROE, r.Ke)
            /\ NumGT(r.spread_valor, Zero) <=> NumGT(r.ROE, r.Ke)

\* C3 witness: a finished valuation with a row that creates value (ROE above
\* Ke) and a row that does not.
C3_Witness ==
    /\ pc = "done"
    /\ \E r \in Range(df_capm) : NumGT(r.spread_valor, Zero) /\ NumGT(r.ROE, r.Ke)
    /\ \E r \in Range(df_capm) : ~NumGT(r.spread_valor, Zero) /\ ~NumGT(r.ROE, r.Ke)

\* C4: the end-to-end scenario.  Net income {2021: 100, 2022: 120} and equity
\* {2020: 1000, 2021: 1100, 2022: 1200} give ROE rows 2021 -> 100/1000 and
\* 2022 -> 120/1100; with beta 1.2, Rf(2022) = 5% and Rm(2022) = 15% the 2022
\* valuation row has Ke = 17% and spread = 120/1100 - 17%.
C4_Lucro == <<[Ano |-> 2021, Lucro_Liquido |-> Int2Num(100)],
              [Ano |-> 2022, Lucro_Liquido |-> Int2Num(120)]>>

C4_PL == <<[Ano |-> 2020, PL_Controlador |-> Int2Num(1000)],
           [Ano |-> 2021, PL_Controlador |-> Int2Num(1100)],
           [Ano |-> 2022, PL_Controlador |-> Int2Num(1200)]>>

C4_Inputs ==
    /\ df_lucro = C4_Lucro
    /\ df_pl = C4_PL
    /\ beta = Fin(12, 10)
    /\ \E s \in Range(df_selic) : s.ano = 2022 /\ s.selic_anual = Fin(5, 100)
    /\ \E m \in Range(df_ibov) : m.ano = 2022 /\ m.retorno_ibov = Fin(15, 100)

C4_EndToEndScenario ==
    (pc = "done" /\ C4_Inputs) =>
        /\ \E r \in Range(df_roe) : r.Ano = 2021 /\ r.ROE = Fin(100, 1000)
        /\ \E r \in Range(df_roe) : r.Ano = 2022 /\ r.ROE = Fin(120, 1100)
        /\ \E r \in Range(df_capm) :
                /\ r.Ano = 2022
                /\ r.Ke = Fin(17, 100)
                /\ r.spread_valor = NumSub(Fin(120, 1100), Fin(17, 100))

\* C5: with the ROE table sorted by year and one row per year in the rate and
\* market tables, calcular_capm outputs exactly one row for each year present
\* in all three tables, none for any other year, in ascending year order.
C5_CapmJoinYears ==
    pc = "done" =>
        ColAnos(df_capm, "Ano") =
            Ascending(AnosDe(df_roe, "Ano") \cap AnosDe(df_selic, "ano")
                        \cap AnosDe(df_ibov, "ano"))

\* C5 witness: a finished join that kept one year of the ROE table and dropped
\* another because the rate table or the market table has no row for it.
C5_Witness ==
    /\ pc = "done"
    /\ df_capm # <<>>
    /\ \E y \in AnosDe(df_roe, "Ano") :
            y \notin (AnosDe(df_selic, "ano") \cap AnosDe(df_ibov, "ano"))

(***************************************************************************)
(* The roster.  BANCOS is the list of the script, cut to NumBancos.        *)
(***************************************************************************)
BancosTodos ==
    <<[nome |-> "Itau Unibanco", ticker |-> "ITUB4.SA", cnpj |-> "60.872.504/0001-23"],
      [nome |-> "Bradesco", ticker |-> "BBDC4.SA", cnpj |-> "60.746.948/0001-12"],
      [nome |-> "Banco do Brasil", ticker |-> "BBAS3.SA", cnpj |-> "00.000.000/0001-91"],
      [nome |-> "Santander BR", ticker |-> "SANB11.SA", cnpj |-> "90.400.888/0001-42"]>>

BANCOS == SubSeq(BancosTodos, 1, NumBancos)

Linha(cnpj, y, ordem, cd, ds, vl) ==
    [CNPJ_CIA |-> cnpj, DT_REFER |-> <<y, 12, 31>>, ORDEM_EXERC |-> ordem,
     CD_CONTA |-> cd, DS_CONTA |-> ds, VL_CONTA |-> vl]

(***************************************************************************)
(* SpecPl: extrair_pl on a balance-sheet frame drawn from bounded sets.    *)
(* Per fiscal year the entity has no, one or two total-equity rows (2.08)  *)
(* and has or has not a non-controlling-interest row (2.08.09); rows of    *)
(* the year before (PENULTIMO), of another account and of another entity   *)
(* are always present.                                                     *)
(***************************************************************************)
TotalDe(y) == 1000 + 100 * (y - 2020)

NciDe(y) == 10 * (y - 2019)

BppDoAno(cnpj, y, nTotal, temNci) ==
    <<Linha(cnpj, y, "PENULTIMO", "2.08", "Patrimonio Liquido Consolidado", 7),
      Linha(cnpj, y, "ULTIMO", "2.07", "Passivos sobre Ativos Nao Correntes a Venda", 3)>>
    \o [i \in 1..nTotal |->
            Linha(cnpj, y, "ULTIMO", "2.08", "Patrimonio Liquido Consolidado",
                  IF i = 1 THEN TotalDe(y) ELSE 1)]
    \o (IF temNci
        THEN <<Linha(cnpj, y, "ULTIMO", "2.08.09",
                     "Participacao dos Acionistas Nao Controladores", NciDe(y))>>
        ELSE <<>>)

BppFrame(nTotal, temNci) ==
    Frame(Flatten([i \in 1..NumYears |->
        LET y == 2019 + i
        IN  BppDoAno(BANCOS[1].cnpj, y, nTotal[y], temNci[y])
            \o <<Linha(BANCOS[2].cnpj, y, "ULTIMO", "2.08",
                       "Patrimonio Liquido Consolidado", 5)>>]))

InitPl ==
    /\ pc = "pl"
    /\ SelicIdle /\ BancoIdle
    /\ ano = 0 /\ lista_dre = <<>> /\ lista_bpp = <<>> /\ anos_ok = <<>>
    /\ dre_total = SemColunas
    /\ \E nTotal \in [YearsVal -> 0..2], temNci \in [YearsVal -> BOOLEAN] :
            bpp_total = BppFrame(nTotal, temNci)
    /\ df_selic = <<>> /\ df_ibov = <<>> /\ df_lucro = <<>> /\ df_pl = <<>>
    /\ df_roe = <<>> /\ df_capm = <<>> /\ beta = Zero

ExtrairPl ==
    /\ pc = "pl"
    /\ df_pl' = extrair_pl(bpp_total.rows, BANCOS[1].cnpj)
    /\ pc' = "done"
    /\ UNCHANGED <<cvmVars, selicVars, bancoVars, df_selic, df_ibov, df_lucro,
                   df_roe, beta, df_capm>>

NextPl == ExtrairPl

SpecPl == InitPl /\ [][NextPl]_vars

\* the entity's final rows of an account in a fiscal year
LinhasDaConta(y, conta) ==
    SelectSeq(bpp_total.rows, LAMBDA r : /\ r.CNPJ_CIA = BANCOS[1].cnpj
                                         /\ r.ORDEM_EXERC = "ULTIMO"
                                         /\ r.CD_CONTA = conta
                                         /\ YearOf(r.DT_REFER) = y)

\* C2: for every year extrair_pl outputs that has total equity (2.08),
\* PL_Controlador is total equity minus non-controlling interest (2.08.09) of
\* that year, and is total equity when the year has no 2.08.09 row, also
\* when other years of the entity do have one.
C2_ControllingEquity ==
    pc = "done" =>
        \A r \in Range(df_pl) :
            LinhasDaConta(r.Ano, "2.08") # <<>> =>
                r.PL_Controlador =
                    Int2Num(SumVL(LinhasDaConta(r.Ano, "2.08"))
                            - SumVL(LinhasDaConta(r.Ano, "2.08.09")))

(***************************************************************************)
(* baixar_selic.  A rate point is [data |-> <<day, month, year>>, valor],  *)
(* the date in the source's day-first format and valor in percent per day. *)
(***************************************************************************)
Min2(a, b) == IF a <= b THEN a ELSE b

\* pd.to_datetime(..., dayfirst=True).dt.year
AnoDaData(data) == data[3]

DataLE(a, b) ==
    \/ a[3] < b[3]
    \/ a[3] = b[3] /\ a[2] < b[2]
    \/ a[3] = b[3] /\ a[2] = b[2] /\ a[1] <= b[1]

\* mutant of FimBloco: a window one year too long
FimBlocoOnze(i, fim) == Min2(i + 10, fim)

\* fim_bloco = min(inicio + 9, ano_fim)
FimBloco(i, fim) == Min2(i + 9, fim)

\* range(ano_ini, ano_fim + 1, 10): the next value of the loop variable
ProximoInicio(i) == i + 10

\* what the source returns for dataInicial=01/01/i, dataFinal=31/12/f
Resposta(s, i, f) ==
    SelectSeq(s, LAMBDA p : DataLE(<<1, 1, i>>, p.data) /\ DataLE(p.data, <<31, 12, f>>))

FatorDiario(p) == NumAdd(Int2Num(1), NumDiv(p.valor, Int2Num(100)))

RECURSIVE Prod(_)
Prod(ps) == IF ps = <<>> THEN Int2Num(1) ELSE NumMul(FatorDiario(Head(ps)), Prod(Tail(ps)))

\* groupby("ano")["fator_diario"].prod(), minus one: one row per year, ascending
Anualizar(ps) ==
    LET anos == Ascending({AnoDaData(p.data) : p \in Range(ps)})
    IN  [i \in 1..Len(anos) |->
            [ano |-> anos[i],
             selic_anual |->
                NumSub(Prod(SelectSeq(ps, LAMBDA p : AnoDaData(p.data) = anos[i])),
                       Int2Num(1))]]

\* one iteration of the request loop, the source answering
SelicPedido ==
    /\ pc = "selic"
    /\ inicio <= ano_fim
    /\ pedidos' = Append(pedidos, <<inicio, FimBloco(inicio, ano_fim)>>)
    /\ todos' = todos \o Resposta(serie, inicio, FimBloco(inicio, ano_fim))
    /\ inicio' = ProximoInicio(inicio)
    /\ UNCHANGED <<pc, cvmVars, bancoVars, serie, ano_ini, ano_fim, df_selic,
                   df_ibov, df_lucro, df_pl, df_roe, beta, df_capm>>

\* one iteration of the request loop, raise_for_status raising
SelicPedidoErro ==
    /\ pc = "selic"
    /\ inicio <= ano_fim
    /\ pedidos' = Append(pedidos, <<inicio, FimBloco(inicio, ano_fim)>>)
    /\ pc' = "HTTPError"
    /\ UNCHANGED <<cvmVars, bancoVars, serie, inicio, ano_ini, ano_fim, todos,
                   df_selic, df_ibov, df_lucro, df_pl, df_roe, beta, df_capm>>

\* after the loop: the annual table
SelicAnual ==
    /\ pc = "selic"
    /\ inicio > ano_fim
    /\ todos # <<>>
    /\ df_selic' = Anualizar(todos)
    /\ pc' = "ibov"
    /\ UNCHANGED <<cvmVars, bancoVars, selicVars, df_ibov, df_lucro, df_pl,
                   df_roe, beta, df_capm>>

\* after the loop, no point at all: pd.DataFrame([]) has no column "data"
SelicVazio ==
    /\ pc = "selic"
    /\ inicio > ano_fim
    /\ todos = <<>>
    /\ pc' = "KeyError"
    /\ UNCHANGED <<cvmVars, bancoVars, selicVars, df_selic, df_ibov, df_lucro,
                   df_pl, df_roe, beta, df_capm>>

(***************************************************************************)
(* SpecSelic: baixar_selic(ano_ini, ano_fim) for any range of up to        *)
(* MaxSpan + 1 years.  The source has two points in each year it covers,   *)
(* on the first and on the last day of the year (the days on which two     *)
(* windows could overlap); it may lack any one year.                       *)
(***************************************************************************)
AnosSelic == 2000..(2000 + MaxSpan)

PontosDoAno(y) ==
    <<[data |-> <<1, 1, y>>, valor |-> Int2Num(50)],
      [data |-> <<31, 12, y>>, valor |-> Int2Num(25)]>>

SerieDe(anos) ==
    LET ys == Ascending(anos)
    IN  Flatten([i \in 1..Len(ys) |-> PontosDoAno(ys[i])])

InitSelic ==
    /\ pc = "selic"
    /\ CvmIdle /\ BancoIdle
    /\ ano_ini \in AnosSelic
    /\ ano_fim \in AnosSelic
    /\ ano_ini <= ano_fim
    /\ \E falta \in {{}} \cup {{y} : y \in AnosSelic} : serie = SerieDe(AnosSelic \ falta)
    /\ inicio = ano_ini
    /\ pedidos = <<>>
    /\ todos = <<>>
    /\ df_selic = <<>> /\ df_ibov = <<>> /\ df_lucro = <<>> /\ df_pl = <<>>
    /\ df_roe = <<>> /\ df_capm = <<>> /\ beta = Zero

NextSelic == SelicPedido \/ SelicPedidoErro \/ SelicAnual \/ SelicVazio

SpecSelic == InitSelic /\ [][NextSelic]_vars

\* the requests issued so far that cover calendar year y
Cobrem(y) == {i \in DOMAIN pedidos : pedidos[i][1] <= y /\ y <= pedidos[i][2]}

\* the source's points of calendar year y
PontosDe(y) == SelectSeq(serie, LAMBDA p : AnoDaData(p.data) = y)

\* C10: every sub-range request of baixar_selic spans at most 10 calendar
\* years, no year is covered by two requests, and once the loop is over every
\* year of [ano_ini, ano_fim] is covered by exactly one; so the output has one
\* row per year the source has points for, in year order, whose rate is the
\* product of that year's factors, each point taken once, minus one.
C10_SelicWindows ==
    /\ \A i \in DOMAIN pedidos :
            /\ pedidos[i][1] <= pedidos[i][2]
            /\ pedidos[i][2] - pedidos[i][1] + 1 <= 10
    /\ \A y \in AnosSelic : Cardinality(Cobrem(y)) <= 1
    /\ (pc = "selic" /\ inicio > ano_fim) \/ pc = "ibov" =>
            \A y \in AnosSelic :
                Cardinality(Cobrem(y)) = (IF ano_ini <= y /\ y <= ano_fim THEN 1 ELSE 0)
    /\ pc = "ibov" =>
            LET anos == Ascending({y \in ano_ini..ano_fim : PontosDe(y) # <<>>})
            IN  df_selic = [i \in 1..Len(anos) |->
                    [ano |-> anos[i],
                     selic_anual |-> NumSub(Prod(PontosDe(anos[i])), Int2Num(1))]]

\* C10 witness: a finished download that needed three requests and met a year
\* without points inside the range.
C10_Witness ==
    /\ pc = "ibov"
    /\ Len(pedidos) = 3
    /\ \E y \in ano_ini..ano_fim : PontosDe(y) = <<>>
    /\ Len(df_selic) = ano_fim - ano_ini

(***************************************************************************)
(* The run of the script (__main__).                                       *)
(***************************************************************************)
ANO_INICIAL == 2010

\* the script's ANO_FINAL is 2024; the model's window has NumAnos years
ANO_FINAL == ANO_INICIAL + NumAnos - 1

ANOS == ANO_INICIAL..ANO_FINAL

LucroMil(y) == 100 + 20 * (y - ANO_INICIAL)

PLMil(y) == 1000 + 100 * (y - ANO_INICIAL)

OutroCnpj == "33.000.167/0001-01"

\* the DRE rows an archive of year y holds for an entity
DreDe(cnpj, y) ==
    <<Linha(cnpj, y, "ULTIMO", "3.01", "Receitas da Intermediacao Financeira", 900),
      Linha(cnpj, y, "PENULTIMO", "3.11", "Lucro/Prejuizo Consolidado do Periodo", 1),
      Linha(cnpj, y, "ULTIMO", "3.11", "Lucro/Prejuizo Consolidado do Periodo", LucroMil(y))>>

\* the BPP rows an archive of year y holds for an entity
BppDe(cnpj, y, temNci) ==
    <<Linha(cnpj, y, "PENULTIMO", "2.08", "Patrimonio Liquido Consolidado", 1),
      Linha(cnpj, y, "ULTIMO", "2.08", "Patrimonio Liquido Consolidado", PLMil(y))>>
    \o (IF temNci
        THEN <<Linha(cnpj, y, "ULTIMO", "2.08.09",
                     "Participacao dos Acionistas Nao Controladores", 10)>>
        ELSE <<>>)

\* what an archive can hold: no consolidated file at all, rows of an entity
\* outside the roster only, rows of the first entity (with or without a
\* non-controlling-interest row), or rows of every entity of the roster
Conteudos == {"sem_arquivos", "terceiros", "primeiro_nci", "primeiro", "todos"}

EntidadesDe(c) ==
    IF c \in {"primeiro_nci", "primeiro"} THEN <<BANCOS[1].cnpj>>
    ELSE IF c = "todos" THEN [i \in 1..Len(BANCOS) |-> BANCOS[i].cnpj]
    ELSE <<>>

\* extrair_csv_zip(zip_obj, "DRE") on an archive of year y with content c
ZipDre(c, y) ==
    IF c = "sem_arquivos" THEN SemColunas
    ELSE Frame(DreDe(OutroCnpj, y)
               \o Flatten([i \in 1..Len(EntidadesDe(c)) |-> DreDe(EntidadesDe(c)[i], y)]))

\* extrair_csv_zip(zip_obj, "BPP") on an archive of year y with content c
ZipBpp(c, y) ==
    IF c = "sem_arquivos" THEN SemColunas
    ELSE Frame(BppDe(OutroCnpj, y, FALSE)
               \o Flatten([i \in 1..Len(EntidadesDe(c)) |->
                        BppDe(EntidadesDe(c)[i], y, c = "primeiro_nci")]))

\* pd.concat(lista, ignore_index=True) if lista else pd.DataFrame()
Concat(lista) ==
    IF lista = <<>> THEN SemColunas
    ELSE Frame(Flatten([i \in 1..Len(lista) |-> lista[i].rows]))

restVars == <<serie, inicio, ano_ini, ano_fim, pedidos, todos, df_selic, df_ibov,
              df_lucro, df_pl, df_roe, beta, df_capm, bancoVars>>

\* baixar_dados_cvm, one year: baixar_dfp_zip returned None
CvmIndisponivel ==
    /\ pc = "cvm"
    /\ ano <= ANO_FINAL
    /\ ano' = ano + 1
    /\ UNCHANGED <<pc, lista_dre, lista_bpp, anos_ok, dre_total, bpp_total, restVars>>

\* baixar_dados_cvm, one year: the archive was obtained
CvmBaixado ==
    /\ pc = "cvm"
    /\ ano <= ANO_FINAL
    /\ \E c \in Conteudos :
            /\ lista_dre' = IF ~FrameEmpty(ZipDre(c, ano))
                             THEN Append(lista_dre, ZipDre(c, ano)) ELSE lista_dre
            /\ lista_bpp' = IF ~FrameEmpty(ZipBpp(c, ano))
                             THEN Append(lista_bpp, ZipBpp(c, ano)) ELSE lista_bpp
    /\ anos_ok' = Append(anos_ok, ano)
    /\ ano' = ano + 1
    /\ UNCHANGED <<pc, dre_total, bpp_total, restVars>>

\* mutant of NenhumAnoBaixado: fatal as soon as one year is missing
AlgumAnoFaltando(ok) == Len(ok) < NumAnos

\* if not anos_baixados
NenhumAnoBaixado(ok) == ok = <<>>

\* baixar_dados_cvm returns and no year was obtained: RuntimeError
CvmNenhumAno ==
    /\ pc = "cvm"
    /\ ano > ANO_FINAL
    /\ NenhumAnoBaixado(anos_ok)
    /\ dre_total' = Concat(lista_dre)
    /\ bpp_total' = Concat(lista_bpp)
    /\ pc' = "RuntimeError"
    /\ UNCHANGED <<ano, lista_dre, lista_bpp, anos_ok, restVars>>

\* baixar_dados_cvm returns with some year: on to baixar_selic
CvmConcluido ==
    /\ pc = "cvm"
    /\ ano > ANO_FINAL
    /\ ~NenhumAnoBaixado(anos_ok)
    /\ dre_total' = Concat(lista_dre)
    /\ bpp_total' = Concat(lista_bpp)
    /\ pc' = "selic"
    /\ ano_ini' = ANO_INICIAL
    /\ ano_fim' = ANO_FINAL
    /\ inicio' = ANO_INICIAL
    /\ UNCHANGED <<ano, lista_dre, lista_bpp, anos_ok, serie, pedidos, todos,
                   df_selic, df_ibov, df_lucro, df_pl, df_roe, beta, df_capm,
                   bancoVars>>

(***************************************************************************)
(* baixar_ibov_anual.  A price row is [Date |-> <<year, month, day>>,      *)
(* AdjClose].                                                              *)
(***************************************************************************)
baixar_ibov_anual(precos) ==
    LET anos == Ascending({YearOf(p.Date) : p \in Range(precos)})
    IN  [i \in 1..Len(anos) |->
            LET doAno == SelectSeq(precos, LAMBDA p : YearOf(p.Date) = anos[i])
            IN  [ano |-> anos[i],
                 retorno_ibov |->
                    NumSub(NumDiv(Int2Num(doAno[Len(doAno)].AdjClose),
                                  Int2Num(doAno[1].AdjClose)),
                           Int2Num(1))]]

PrecosDoAno(y) ==
    <<[Date |-> <<y, 1, 2>>, AdjClose |-> 100],
      [Date |-> <<y, 6, 30>>, AdjClose |-> 130],
      [Date |-> <<y, 12, 30>>, AdjClose |-> 100 + 10 * (y - ANO_INICIAL + 1)]>>

PrecosDe(anos) ==
    LET ys == Ascending(anos)
    IN  Flatten([i \in 1..Len(ys) |-> PrecosDoAno(ys[i])])

\* the price source has every year, lacks the last one, or has nothing
IbovAnual ==
    /\ pc = "ibov"
    /\ \E anos \in {ANOS, ANOS \ {ANO_FINAL}, {}} :
            df_ibov' = baixar_ibov_anual(PrecosDe(anos))
    /\ pc' = "bancos"
    /\ banco' = 1
    /\ UNCHANGED <<cvmVars, selicVars, df_selic, df_lucro, df_pl, df_roe, beta,
                   df_capm, pares, resultados, planilha>>

(***************************************************************************)
(* calcular_beta.  The month-end closes (precos.resample("ME").last()) are *)
(* a sequence of rows [ACAO, IBOV]; ret is their month-over-month change   *)
(* without the first, undefined, row.                                      *)
(***************************************************************************)
PctChange(m) ==
    [i \in 1..(Len(m) - 1) |->
        [ACAO |-> NumSub(NumDiv(Int2Num(m[i + 1].ACAO), Int2Num(m[i].ACAO)), Int2Num(1)),
         IBOV |-> NumSub(NumDiv(Int2Num(m[i + 1].IBOV), Int2Num(m[i].IBOV)), Int2Num(1))]]

RECURSIVE SumNum(_)
SumNum(xs) == IF xs = <<>> THEN Zero ELSE NumAdd(Head(xs), SumNum(Tail(xs)))

\* n * Sxx - Sx^2 of the regressor: zero when it cannot carry a slope
OlsDenominador(ret) ==
    LET x == [i \in 1..Len(ret) |-> ret[i].IBOV]
        n == Int2Num(Len(ret))
    IN  NumSub(NumMul(n, SumNum([i \in 1..Len(ret) |-> NumMul(x[i], x[i])])),
               NumMul(SumNum(x), SumNum(x)))

\* the slope on IBOV of the least-squares fit of ACAO on a constant and IBOV
OlsSlope(ret) ==
    LET x == [i \in 1..Len(ret) |-> ret[i].IBOV]
        y == [i \in 1..Len(ret) |-> ret[i].ACAO]
        n == Int2Num(Len(ret))
    IN  NumDiv(NumSub(NumMul(n, SumNum([i \in 1..Len(ret) |-> NumMul(x[i], y[i])])),
                      NumMul(SumNum(x), SumNum(y))),
               OlsDenominador(ret))

\* sm.add_constant(ret["IBOV"]) with has_constant = 'skip': a regressor that
\* is one repeated non-zero value is itself taken as the constant and no
\* column of ones is added (a single observation is such a regressor)
IbovConstante(ret) ==
    /\ Len(ret) >= 1
    /\ ret[1].IBOV # Zero
    /\ \A i \in 1..Len(ret) : ret[i].IBOV = ret[1].IBOV

\* the fit of ACAO on IBOV alone, without a column of ones
OlsSemConstante(ret) ==
    NumDiv(SumNum([i \in 1..Len(ret) |-> NumMul(ret[i].IBOV, ret[i].ACAO)]),
           SumNum([i \in 1..Len(ret) |-> NumMul(ret[i].IBOV, ret[i].IBOV)]))

\* OLS needs an observation: on an empty ret the model cannot be built
BetaDefinido(ret) == Len(ret) >= 1

\* float(modelo.params["IBOV"]): the coefficient on IBOV.  A regressor that is
\* zero throughout gets the coefficient 0 of the least-norm (pinv) solution.
calcular_beta(ret) ==
    IF IbovConstante(ret) THEN OlsSemConstante(ret)
    ELSE IF OlsDenominador(ret) = Zero THEN Zero
    ELSE OlsSlope(ret)

MesesFonte == <<[ACAO |-> 20, IBOV |-> 100], [ACAO |-> 23, IBOV |-> 110],
                [ACAO |-> 20, IBOV |-> 99]>>

\* the month-end closes the price source can give for an instrument: none,
\* two months or three
Mensais == {SubSeq(MesesFonte, 1, k) : k \in {0, 2, 3}}

(***************************************************************************)
(* The loop over BANCOS.                                                   *)
(***************************************************************************)
RoeDoBanco(b) ==
    calcular_roe(extrair_lucro(dre_total.rows, BANCOS[b].cnpj),
                 extrair_pl(bpp_total.rows, BANCOS[b].cnpj))

\* dre["CNPJ_CIA"] or bpp["CNPJ_CIA"] on a frame without columns: KeyError
BancoKeyError ==
    /\ pc = "bancos"
    /\ banco <= Len(BANCOS)
    /\ ~dre_total.columns \/ ~bpp_total.columns
    /\ df_lucro' = IF dre_total.columns
                    THEN extrair_lucro(dre_total.rows, BANCOS[banco].cnpj)
                    ELSE df_lucro
    /\ pc' = "KeyError"
    /\ UNCHANGED <<cvmVars, selicVars, df_selic, df_ibov, df_pl, df_roe, beta,
                   df_capm, bancoVars>>

\* df_roe.empty: "Dados insuficientes", continue
BancoPulado ==
    /\ pc = "bancos"
    /\ banco <= Len(BANCOS)
    /\ dre_total.columns /\ bpp_total.columns
    /\ RoeDoBanco(banco) = <<>>
    /\ df_lucro' = extrair_lucro(dre_total.rows, BANCOS[banco].cnpj)
    /\ df_pl' = extrair_pl(bpp_total.rows, BANCOS[banco].cnpj)
    /\ df_roe' = <<>>
    /\ banco' = banco + 1
    /\ UNCHANGED <<pc, cvmVars, selicVars, df_selic, df_ibov, beta, df_capm,
                   pares, resultados, planilha>>

\* calcular_beta returns a number (one paired return is enough for it),
\* calcular_capm runs and the table is stored under the entity's name,
\* whatever its number of rows.
BancoValorado ==
    /\ pc = "bancos"
    /\ banco <= Len(BANCOS)
    /\ dre_total.columns /\ bpp_total.columns
    /\ RoeDoBanco(banco) # <<>>
    /\ df_lucro' = extrair_lucro(dre_total.rows, BANCOS[banco].cnpj)
    /\ df_pl' = extrair_pl(bpp_total.rows, BANCOS[banco].cnpj)
    /\ df_roe' = RoeDoBanco(banco)
    /\ \E m \in Mensais :
            /\ pares' = Append(pares, [nome |-> BANCOS[banco].nome,
                                       n |-> Len(PctChange(m))])
            /\ BetaDefinido(PctChange(m))
            /\ beta' = calcular_beta(PctChange(m))
    /\ df_capm' = calcular_capm(df_roe', df_selic, df_ibov, beta')
    /\ resultados' = Append(resultados, [nome |-> BANCOS[banco].nome, df |-> df_capm'])
    /\ banco' = banco + 1
    /\ UNCHANGED <<pc, cvmVars, selicVars, df_selic, df_ibov, planilha>>

\* calcular_beta raises on an empty ret (ValueError): nothing catches it
BancoBetaErro ==
    /\ pc = "bancos"
    /\ banco <= Len(BANCOS)
    /\ dre_total.columns /\ bpp_total.columns
    /\ RoeDoBanco(banco) # <<>>
    /\ df_lucro' = extrair_lucro(dre_total.rows, BANCOS[banco].cnpj)
    /\ df_pl' = extrair_pl(bpp_total.rows, BANCOS[banco].cnpj)
    /\ df_roe' = RoeDoBanco(banco)
    /\ \E m \in Mensais :
            /\ ~BetaDefinido(PctChange(m))
            /\ pares' = Append(pares, [nome |-> BANCOS[banco].nome,
                                       n |-> Len(PctChange(m))])
    /\ pc' = "ValueError"
    /\ UNCHANGED <<cvmVars, selicVars, df_selic, df_ibov, beta, df_capm, banco,
                   resultados, planilha>>

\* if resultados: criar_excel(resultados, PASTA_SAIDA)
BancosRelatorio ==
    /\ pc = "bancos"
    /\ banco > Len(BANCOS)
    /\ resultados # <<>>
    /\ planilha' = [escrita |-> TRUE, resultados |-> resultados]
    /\ pc' = "done"
    /\ UNCHANGED <<cvmVars, selicVars, df_selic, df_ibov, df_lucro, df_pl,
                   df_roe, beta, df_capm, banco, pares, resultados>>

\* else: "Nenhum banco processado com sucesso"
BancosNenhum ==
    /\ pc = "bancos"
    /\ banco > Len(BANCOS)
    /\ resultados = <<>>
    /\ pc' = "done"
    /\ UNCHANGED <<cvmVars, selicVars, df_selic, df_ibov, df_lucro, df_pl,
                   df_roe, beta, df_capm, bancoVars>>

\* the policy-rate source of a run has every year of the window, lacks its
\* second year, or has nothing
Init ==
    /\ pc = "cvm"
    /\ ano = ANO_INICIAL
    /\ lista_dre = <<>>
    /\ lista_bpp = <<>>
    /\ anos_ok = <<>>
    /\ dre_total = SemColunas
    /\ bpp_total = SemColunas
    /\ \E anos \in {ANOS, ANOS \ {ANO_INICIAL + 1}, {}} : serie = SerieDe(anos)
    /\ inicio = 0
    /\ ano_ini = 0
    /\ ano_fim = 0
    /\ pedidos = <<>>
    /\ todos = <<>>
    /\ df_selic = <<>> /\ df_ibov = <<>> /\ df_lucro = <<>> /\ df_pl = <<>>
    /\ df_roe = <<>> /\ df_capm = <<>> /\ beta = Zero
    /\ BancoIdle

Next ==
    \/ CvmIndisponivel \/ CvmBaixado \/ CvmNenhumAno \/ CvmConcluido
    \/ SelicPedido \/ SelicPedidoErro \/ SelicAnual \/ SelicVazio
    \/ IbovAnual
    \/ BancoKeyError \/ BancoPulado \/ BancoValorado \/ BancoBetaErro
    \/ BancosRelatorio \/ BancosNenhum

Spec == Init /\ [][Next]_vars

(***************************************************************************)
(* Claims settled under Spec.                                              *)
(***************************************************************************)
Nomes(res) == {res[i].nome : i \in DOMAIN res}

\* C6: an entity whose instrument and benchmark give fewer than 2 paired
\* monthly returns is skipped: it gets no entry in the results, and the run
\* is not terminated by it.
C6_InsufficientSeriesSkipsEntity ==
    \A p \in Range(pares) :
        p.n < 2 => /\ pc # "ValueError"
                   /\ p.nome \notin Nomes(resultados)

\* the entity's beta came from two or more paired returns
BetaFoiDefinido(nome) == \A p \in Range(pares) : p.nome = nome => p.n >= 2

\* C7: an entity whose ROE table is non-empty but whose join with the rate
\* and market tables has zero rows is not added to the results mapping that
\* is handed to the report.  (Stated for the entities whose beta is defined,
\* so that the case is the empty join alone.)
C7_EmptyJoinNotReported ==
    /\ \A e \in Range(resultados) : BetaFoiDefinido(e.nome) => e.df # <<>>
    /\ \A e \in Range(planilha.resultados) : BetaFoiDefinido(e.nome) => e.df # <<>>

\* the entity has no income row or no equity row in the aggregate frames
SemLinhas(b) ==
    \/ SelectSeq(dre_total.rows, LAMBDA r : r.CNPJ_CIA = BANCOS[b].cnpj) = <<>>
    \/ SelectSeq(bpp_total.rows, LAMBDA r : r.CNPJ_CIA = BANCOS[b].cnpj) = <<>>

\* the entity has an ROE row and two or more paired returns for its beta
Suficiente(c) ==
    /\ RoeDoBanco(c) # <<>>
    /\ \A p \in Range(pares) : p.nome = BANCOS[c].nome => p.n >= 2

\* C8: an entity with zero matching disclosure rows makes the extractors
\* return an empty result and not an error, gets no entry in the results, and
\* does not abort the run: every other entity with sufficient data is valued
\* and reported.
C8_NoRowsEntityIsSkipped ==
    (banco >= 1 /\ pc \in {"bancos", "done", "KeyError", "ValueError"}) =>
        \A b \in 1..Len(BANCOS) :
            SemLinhas(b) =>
                /\ ~(pc = "KeyError" /\ banco = b)
                /\ BANCOS[b].nome \notin Nomes(resultados)
                /\ pc # "bancos" =>
                        \A c \in 1..Len(BANCOS) :
                            Suficiente(c) =>
                                BANCOS[c].nome \in Nomes(planilha.resultados)

\* the years of the rows of a list of batches
AnosDasLinhas(lista) ==
    UNION {{YearOf(r.DT_REFER) : r \in Range(lista[i].rows)} : i \in DOMAIN lista}

\* C9: when the disclosure source is unavailable for every requested year the
\* run ends in the fatal no-data outcome, with no entity processed and no
\* report written; the fatal outcome arises in no other case, so an
\* unavailable year is only omitted (no row of it enters the aggregate) and
\* does not abort the run while some year was obtained.
C9_FatalNoData ==
    /\ (pc # "cvm" /\ anos_ok = <<>>) =>
            /\ pc = "RuntimeError"
            /\ banco = 0 /\ pares = <<>> /\ resultados = <<>>
            /\ pedidos = <<>>
            /\ ~planilha.escrita
    /\ pc = "RuntimeError" => anos_ok = <<>> /\ ano > ANO_FINAL
    /\ Range(anos_ok) \subseteq ANO_INICIAL..(ano - 1)
    /\ AnosDasLinhas(lista_dre) \cup AnosDasLinhas(lista_bpp) \subseteq Range(anos_ok)

\* C9 witness: every year of the window was tried, none was obtained, and the
\* run stopped with the RuntimeError.
C9_Witness ==
    /\ pc = "RuntimeError"
    /\ ano > ANO_FINAL
    /\ anos_ok = <<>>

(***************************************************************************)
(* SpecPerm: calcular_roe on tables whose rows are in any order.  The      *)
(* inputs are the tables of SpecVal with their rows permuted.              *)
(***************************************************************************)
\* the row orders of a table
Perms(t) ==
    {[i \in 1..Len(t) |-> t[f[i]]] :
        f \in {g \in [1..Len(t) -> 1..Len(t)] :
                    \A i, j \in 1..Len(t) : g[i] = g[j] => i = j}}

InitPerm ==
    /\ pc = "roe"
    /\ CvmIdle /\ SelicIdle /\ BancoIdle
    /\ \E P \in Patterns, sgn \in {1, -1} : df_lucro \in Perms(LucroTable(P, sgn))
    /\ \E opts \in [YearsVal -> {"absent", "nan", "zero", "val"}] :
            df_pl \in Perms(PLTable(opts))
    /\ df_selic = <<>>
    /\ df_ibov = <<>>
    /\ beta = Zero
    /\ df_roe = <<>>
    /\ df_capm = <<>>

NextPerm == RoeStep

SpecPerm == InitPerm /\ [][NextPerm]_vars

\* the rows of a table with one row per year, in ascending year order
PorAno(t) ==
    LET ys == Ascending(AnosDe(t, "Ano"))
    IN  [i \in 1..Len(ys) |-> CHOOSE r \in Range(t) : r.Ano = ys[i]]

\* C11: calcular_roe is order-independent: its output depends only on the
\* sets of (year, net income) and (year, controlling equity) pairs, so with
\* the rows of either input permuted it outputs the rows it outputs for the
\* sorted inputs, and its rows are always in ascending year order.
C11_RoeOrderIndependent ==
    pc = "capm" =>
        /\ df_roe = calcular_roe(PorAno(df_lucro), PorAno(df_pl))
        /\ \A i \in 1..(Len(df_roe) - 1) : df_roe[i].Ano < df_roe[i + 1].Ano

====
